---- MODULE Spec2Model ----
(***************************************************************************)
(* A model of curve.py: the GCode command model (parse / __str__), the     *)
(* interpolate generator, and the two passes of main(): GCodeScanner over  *)
(* all lines, then GCodeTranslator over the same lines.                    *)
(*                                                                         *)
(* Text is a sequence of one-character strings.  Python floats are modelled*)
(* as exact rationals (plus inf, nan and None); the rounding of IEEE-754   *)
(* binary64 arithmetic is not modelled.                                    *)
(***************************************************************************)
EXTENDS Integers, Sequences, FiniteSets, TLC

VARIABLES
    \* main(): the lines read from the file and the --depress argument
    lines, depress,
    \* main(): which loop is running, the index of the line being handled
    phase, pos,
    \* handle_line: transitions taken so far for the current line (history)
    hops,
    \* the first exception raised ("none" while the run is alive)
    err,
    \* GCodeScanner fields
    sstate, max_x, min_x, max_y, min_y, max_z,
    \* the X, Y and Z values RegionScan has read so far (history)
    seen,
    \* GCodeTranslator fields
    tstate, output, first_z, layer_z, last_x, last_y, last_e,
    \* GCode.parse / GCode.__str__ applied to one line of text
    tx,
    \* interpolate applied to one set of ranges
    ip

vars == << lines, depress, phase, pos, hops, err,
           sstate, max_x, min_x, max_y, min_y, max_z, seen,
           tstate, output, first_z, layer_z, last_x, last_y, last_e, tx, ip >>

scanVars == << sstate, max_x, min_x, max_y, min_y, max_z, seen >>
transVars == << tstate, output, first_z, layer_z, last_x, last_y, last_e >>
mainVars == << lines, depress, phase, pos, hops, err >>

-----------------------------------------------------------------------------
(* Text: sequences of one-character strings.                               *)

\* the characters str.rstrip(), str.strip() and str.split() treat as blank
Whitespace == {" ", "\n", "\t", "\r"}

RECURSIVE rstrip(_)
rstrip(s) ==
    IF s # << >> /\ s[Len(s)] \in Whitespace
    THEN rstrip(SubSeq(s, 1, Len(s) - 1))
    ELSE s

RECURSIVE lstrip(_)
lstrip(s) ==
    IF s # << >> /\ s[1] \in Whitespace THEN lstrip(Tail(s)) ELSE s

strip(s) == lstrip(rstrip(s))

\* the index of the first occurrence of character c in s, 0 when absent
RECURSIVE find(_, _, _)
find(s, c, i) ==
    IF i > Len(s) THEN 0
    ELSE IF s[i] = c THEN i
    ELSE find(s, c, i + 1)

\* str.split(): the maximal runs of non-blank characters, in order
RECURSIVE split(_, _, _)
split(s, i, cur) ==
    IF i > Len(s)
    THEN IF cur = << >> THEN << >> ELSE << cur >>
    ELSE IF s[i] \in Whitespace
         THEN IF cur = << >> THEN split(s, i + 1, << >>)
              ELSE << cur >> \o split(s, i + 1, << >>)
         ELSE split(s, i + 1, Append(cur, s[i]))

startswith(s, p) == Len(s) >= Len(p) /\ SubSeq(s, 1, Len(p)) = p

-----------------------------------------------------------------------------
(* Numbers.  A Python float is a record: k = "fin" is the real number      *)
(* n/d + sqrt(1 - qn/qd) - 1 (a plain rational when qn = 0), k = "inf" is  *)
(* float infinity, k = "nan" is not-a-number, and k = "none" is None.      *)

RECURSIVE GCD(_, _)
GCD(a, b) == IF b = 0 THEN a ELSE GCD(b, a % b)

Abs(i) == IF i < 0 THEN -i ELSE i

\* the rational n/d in lowest terms with a positive denominator (d # 0)
Rat(n, d) ==
    LET g == GCD(Abs(n), Abs(d))
        sg == IF d < 0 THEN -1 ELSE 1
    IN  [k |-> "fin", n |-> sg * (n \div g), d |-> sg * (d \div g),
         qn |-> 0, qd |-> 1]

Num(i) == Rat(i, 1)
Inf == [k |-> "inf", n |-> 0, d |-> 1, qn |-> 0, qd |-> 1]
NaN == [k |-> "nan", n |-> 0, d |-> 1, qn |-> 0, qd |-> 1]
None == [k |-> "none", n |-> 0, d |-> 1, qn |-> 0, qd |-> 1]

IsFin(x) == x.k = "fin"

\* float arithmetic on finite values; inf - inf and anything with nan is nan
FAdd(x, y) ==
    IF IsFin(x) /\ IsFin(y) THEN Rat(x.n * y.d + y.n * x.d, x.d * y.d)
    ELSE IF x.k = "nan" \/ y.k = "nan" THEN NaN
    ELSE IF IsFin(x) THEN y
    ELSE IF IsFin(y) THEN x
    ELSE IF x.k = y.k THEN x
    ELSE NaN
FNeg(x) ==
    IF IsFin(x) THEN Rat(-x.n, x.d)
    ELSE IF x.k = "inf" THEN [Inf EXCEPT !.k = "-inf"]
    ELSE IF x.k = "-inf" THEN Inf
    ELSE x
FSub(x, y) ==
    IF IsFin(x) /\ IsFin(y) THEN Rat(x.n * y.d - y.n * x.d, x.d * y.d)
    ELSE IF x.k = "nan" \/ y.k = "nan" THEN NaN
    ELSE IF IsFin(y) THEN x
    ELSE IF IsFin(x) THEN FNeg(y)
    ELSE IF x.k = y.k THEN NaN
    ELSE x
\* -1 for a negative value, 1 otherwise
Sign(x) == IF (IsFin(x) /\ x.n < 0) \/ x.k = "-inf" THEN -1 ELSE 1
FMul(x, y) ==
    IF IsFin(x) /\ IsFin(y) THEN Rat(x.n * y.n, x.d * y.d)
    ELSE IF x.k = "nan" \/ y.k = "nan" THEN NaN
    ELSE IF (IsFin(x) /\ x.n = 0) \/ (IsFin(y) /\ y.n = 0) THEN NaN
    ELSE IF Sign(x) * Sign(y) > 0 THEN Inf ELSE FNeg(Inf)
\* x / y for y # 0 (the callers raise ZeroDivisionError first)
FDiv(x, y) ==
    IF IsFin(x) /\ IsFin(y) THEN Rat(x.n * y.d, x.d * y.n)
    ELSE IF x.k = "nan" \/ y.k = "nan" THEN NaN
    ELSE IF IsFin(x) THEN Num(0)
    ELSE IF IsFin(y) THEN (IF Sign(x) * Sign(y) > 0 THEN Inf ELSE FNeg(Inf))
    ELSE NaN
IsZero(x) == IsFin(x) /\ x.n = 0
\* x < y; every comparison with nan is false
FLt(x, y) ==
    IF IsFin(x) /\ IsFin(y) THEN x.n * y.d < y.n * x.d
    ELSE IF x.k = "nan" \/ y.k = "nan" THEN FALSE
    ELSE IF x.k = y.k THEN FALSE
    ELSE x.k = "-inf" \/ y.k = "inf"
\* Python's max(a, b) and min(a, b): b only when it is strictly beyond a
FMax(a, b) == IF FLt(a, b) THEN b ELSE a
FMin(a, b) == IF FLt(b, a) THEN b ELSE a

Digits == << "0", "1", "2", "3", "4", "5", "6", "7", "8", "9" >>
IsDigit(c) == \E i \in 1..10 : Digits[i] = c
DigitVal(c) == (CHOOSE i \in 1..10 : Digits[i] = c) - 1

RECURSIVE AllDigits(_)
AllDigits(s) == s = << >> \/ (IsDigit(s[1]) /\ AllDigits(Tail(s)))

RECURSIVE DigitsVal(_, _)
DigitsVal(s, acc) ==
    IF s = << >> THEN acc ELSE DigitsVal(Tail(s), 10 * acc + DigitVal(s[1]))

RECURSIVE Pow10(_)
Pow10(e) == IF e = 0 THEN 1 ELSE 10 * Pow10(e - 1)

\* the unsigned part of a literal, split at its decimal point
IntPart(u) == IF find(u, ".", 1) = 0 THEN u ELSE SubSeq(u, 1, find(u, ".", 1) - 1)
FracPart(u) ==
    IF find(u, ".", 1) = 0 THEN << >> ELSE SubSeq(u, find(u, ".", 1) + 1, Len(u))
Unsigned(s) == IF s # << >> /\ s[1] \in {"-", "+"} THEN Tail(s) ELSE s

\* float(s) succeeds: an optional sign, digits, at most one decimal point and
\* at least one digit (exponents and the inf/nan words use characters the
\* modelled inputs do not contain)
IsFloatLiteral(s) ==
    /\ AllDigits(IntPart(Unsigned(s)))
    /\ AllDigits(FracPart(Unsigned(s)))
    /\ Len(IntPart(Unsigned(s))) + Len(FracPart(Unsigned(s))) > 0

\* float(s) for a literal s
ToFloat(s) ==
    LET u == Unsigned(s)
        v == Rat(DigitsVal(IntPart(u) \o FracPart(u), 0), Pow10(Len(FracPart(u))))
    IN  IF s[1] = "-" THEN FNeg(v) ELSE v

\* an argument value: the raw text parse leaves, or a float the Translator
\* has written (num is None for raw text)
RawVal(s) == [raw |-> s, num |-> None]
NumVal(x) == [raw |-> << >>, num |-> x]
IsRaw(v) == v.num = None
\* float(v) of an argument value does not raise ValueError
CanFloat(v) == ~IsRaw(v) \/ IsFloatLiteral(v.raw)
float(v) == IF IsRaw(v) THEN ToFloat(v.raw) ELSE v.num

-----------------------------------------------------------------------------
(* interpolate(n, **p).  p is the keyword arguments in order, each         *)
(* [k |-> axis, a |-> start, b |-> end]; a point is the dict the generator *)
(* yields, as a sequence of [k |-> axis, v |-> float] in the same order.   *)

\* line 15: s[k] = (p[k][1] - p[k][0]) / n
step(r, n) ==
    LET w == FSub(r.b, r.a)
    IN  FDiv(w, Num(n))

\* point with the indices of range(n) for those of range(1, n+1)
point_FromZero(p, n, i) ==
    [j \in 1..Len(p) |->
        LET s == step(p[j], n)
            t == FMul(Num(i - 1), s)
        IN  [k |-> p[j].k, v |-> FAdd(p[j].a, t)]]

\* lines 17-20: the dict yielded for index i
point(p, n, i) ==
    [j \in 1..Len(p) |->
        LET s == step(p[j], n)
            t == FMul(Num(i), s)
        IN  [k |-> p[j].k, v |-> FAdd(p[j].a, t)]]

\* line 16: one point for each i in range(1, n+1)
interpolate(n, p) == [i \in 1..n |-> point(p, n, i)]

-----------------------------------------------------------------------------
(* GCode.  A command is [command, args, comment]; args is the dict as the  *)
(* sequence of its items [k |-> key, v |-> value] in insertion order.      *)

Has(args, key) == \E j \in 1..Len(args) : args[j].k = key
Get(args, key) == args[CHOOSE j \in 1..Len(args) : args[j].k = key].v
\* args[key] = v: an existing key keeps its place, a new one goes last
Put(args, key, v) ==
    IF Has(args, key)
    THEN [j \in 1..Len(args) |-> IF args[j].k = key THEN [k |-> key, v |-> v] ELSE args[j]]
    ELSE Append(args, [k |-> key, v |-> v])

\* lines 43-45: {i[0]: i[1:] for i in command[1:]}
RECURSIVE ArgsOf(_, _)
ArgsOf(toks, acc) ==
    IF toks = << >> THEN acc
    ELSE ArgsOf(Tail(toks), Put(acc, toks[1][1], RawVal(Tail(toks[1]))))

GCode(cmd, args, comment) == [command |-> cmd, args |-> args, comment |-> comment]

\* GCode.parse(line)
parse(line) ==
    LET l == rstrip(line)
        semi == find(l, ";", 1)
        cmdpart == IF semi > 0 THEN SubSeq(l, 1, semi - 1) ELSE l
        comment == IF semi > 0 THEN SubSeq(l, semi, Len(l)) ELSE << >>
        toks == split(strip(cmdpart), 1, << >>)
    IN  GCode(IF toks # << >> THEN toks[1] ELSE << >>,
              IF Len(toks) > 1 THEN ArgsOf(Tail(toks), << >>) ELSE << >>,
              comment)

RECURSIVE NatStr(_)
NatStr(i) == IF i < 10 THEN << Digits[i + 1] >> ELSE Append(NatStr(i \div 10), Digits[(i % 10) + 1])

RECURSIVE PadLeft(_, _)
PadLeft(s, w) == IF Len(s) >= w THEN s ELSE PadLeft(<< "0" >> \o s, w)

\* x * 10^places rounded to the nearest integer, ties to even, for x >= 0
RoundScaled(x, places) ==
    LET num == x.n * Pow10(places)
        q == num \div x.d
        r2 == 2 * (num % x.d)
    IN  IF r2 > x.d \/ (r2 = x.d /\ q % 2 = 1) THEN q + 1 ELSE q

\* f'{x:.{places}f}' of a float that is nan, inf or a plain rational
FormatFixed(x, places) ==
    IF x.k = "nan" THEN << "n", "a", "n" >>
    ELSE IF x.k = "inf" THEN << "i", "n", "f" >>
    ELSE LET neg == x.n < 0
             m == RoundScaled(IF neg THEN FNeg(x) ELSE x, places)
             whole == NatStr(m \div Pow10(places))
             frac == PadLeft(NatStr(m % Pow10(places)), places)
         IN  (IF neg THEN << "-" >> ELSE << >>) \o whole \o << "." >> \o frac

\* lines 76-81: the text of one argument's value
ArgText(a) ==
    IF a.k = "E" THEN FormatFixed(float(a.v), 5)
    ELSE IF a.k \in {"X", "Y", "Z"} THEN FormatFixed(float(a.v), 3)
    ELSE a.v.raw

\* lines 75-82: s after the loop over the arguments
RECURSIVE ArgsText(_, _)
ArgsText(args, s) ==
    IF args = << >> THEN s
    ELSE ArgsText(Tail(args), s \o << " ", args[1].k >> \o ArgText(args[1]))

\* str(g) raises ValueError: a numeric-class key whose value float() rejects
StrRaises(g) ==
    \E j \in 1..Len(g.args) :
        g.args[j].k \in {"E", "X", "Y", "Z"} /\ ~CanFloat(g.args[j].v)

\* GCode_str without lines 72-73: s stays '' whatever the command
GCode_str_NoCommand(g) ==
    LET s1 == ArgsText(g.args, << >>)
        s2 == IF g.comment # << >> /\ strip(s1) # << >>
              THEN strip(s1) \o << " " >> ELSE s1
        s3 == IF g.comment # << >> /\ ~startswith(g.comment, << ";" >>)
              THEN s2 \o << ";" >> ELSE s2
    IN  s3 \o g.comment

\* GCode.__str__ (when it does not raise)
GCode_str(g) ==
    LET s1 == ArgsText(g.args, g.command)
        s2 == IF g.comment # << >> /\ strip(s1) # << >>
              THEN strip(s1) \o << " " >> ELSE s1
        s3 == IF g.comment # << >> /\ ~startswith(g.comment, << ";" >>)
              THEN s2 \o << ";" >> ELSE s2
    IN  s3 \o g.comment

-----------------------------------------------------------------------------
(* The bounded inputs.                                                     *)

\* the longest line of text given to parse
MaxLen == 4
\* the characters of those lines: letters, a digit, blanks and the comment
\* delimiter
Alphabet == {"G", "X", "1", " ", "\n", ";"}

RECURSIVE TextsOfLen(_)
TextsOfLen(k) ==
    IF k = 0 THEN {<< >>}
    ELSE {Append(t, c) : t \in TextsOfLen(k - 1), c \in Alphabet}
Texts == UNION {TextsOfLen(k) : k \in 0..MaxLen}

\* the largest n given to interpolate, and the largest coordinate
MaxN == 4
MaxCoord == 2
Coords == {Num(i) : i \in (0 - MaxCoord)..MaxCoord}

NoText == [stage |-> "off", line |-> << >>, g |-> GCode(<< >>, << >>, << >>), s |-> << >>]
NoInterp == [stage |-> "off", n |-> 0, p |-> << >>, pts |-> << >>]

-----------------------------------------------------------------------------
(* str(GCode.parse(line)) for one line of text.                            *)

ParseLine ==
    /\ tx.stage = "line"
    /\ tx' = [tx EXCEPT !.stage = "parsed", !.g = parse(tx.line)]
    /\ UNCHANGED << mainVars, scanVars, transVars, ip >>

StrCommand ==
    /\ tx.stage = "parsed"
    /\ tx' = IF StrRaises(tx.g)
             THEN [tx EXCEPT !.stage = "ValueError"]
             ELSE [tx EXCEPT !.stage = "text", !.s = GCode_str(tx.g)]
    /\ UNCHANGED << mainVars, scanVars, transVars, ip >>

(* list(interpolate(n, **p)) for one set of ranges.                        *)

Interpolate ==
    /\ ip.stage = "args"
    /\ ip' = [ip EXCEPT !.stage = "done", !.pts = interpolate(ip.n, ip.p)]
    /\ UNCHANGED << mainVars, scanVars, transVars, tx >>

-----------------------------------------------------------------------------
(* The words the handlers compare with.                                    *)

TYPE_SKIRT == << ";", "T", "Y", "P", "E", ":", "S", "K", "I", "R", "T" >>
TYPE_ == << ";", "T", "Y", "P", "E" >>
LAYER_ == << ";", "L", "A", "Y", "E", "R", ":" >>
G0 == << "G", "0" >>
G1 == << "G", "1" >>
G90 == << "G", "9", "0" >>
G91 == << "G", "9", "1" >>
M107 == << "M", "1", "0", "7" >>

(* The input files.  A file is a sequence of lines of Vocab, each named by *)
(* its index; the files of one run draw their lines from one profile.      *)

Vocab == <<
    << ";", "T", "Y", "P", "E", ":", "S", "K", "I", "R", "T" >>,
    << ";", "L", "A", "Y", "E", "R", ":", "0" >>,
    << "G", "0", " ", "Z", "1" >>,
    << "G", "1", " ", "F", "9", " ", "X", "-", "4", " ", "Y", "-", "2", " ", "E", "1" >>,
    << "M", "1", "0", "7" >>,
    << "G", "0", " ", "Z", "2" >>,
    << "G", "9", "1" >>,
    << "G", "9", "0" >>,
    << "G", "0", " ", "Z", "1", " ", ";", "L", "A", "Y", "E", "R", ":", "1" >>,
    << "G", "0", " ", "Z", "0", ".", "2" >>,
    << "G", "1", " ", "X", "1", "0", " ", "Y", "0", " ", "E", "1" >>,
    << "G", "0", " ", "Y", "-", "1" >>,
    << "G", "1", " ", "Y", "-", "1", " ", "Z", "2" >> >>

Profiles ==
    { {1, 2, 3, 4}, {1, 2, 3, 5}, {1, 2, 3, 6}, {1, 2, 3, 12}, {1, 2, 3, 13},
      {1, 4, 7, 8}, {1, 5, 7, 8}, {2, 3, 9}, {2, 10, 11} }

\* the most lines in a file
MaxLines == 5

RECURSIVE FilesOfLen(_, _)
FilesOfLen(P, k) ==
    IF k = 0 THEN {<< >>}
    ELSE {Append(f, i) : f \in FilesOfLen(P, k - 1), i \in P}
Files == UNION {FilesOfLen(P, k) : P \in Profiles, k \in 0..MaxLines}

\* the --depress values: none, and the default of line 283
Depressions == {Num(0), Rat(1, 10)}

\* GCode.parse of each line of Vocab (handle_line, line 97)
Parsed == [i \in 1..Len(Vocab) |-> parse(Vocab[i])]

-----------------------------------------------------------------------------
(* GCodeProcessor.handle_line.  One step is one call self.state(parsed) on *)
(* the line at pos: a handler that returns a next state leaves pos where   *)
(* it is, so the next step calls the new state on the same parsed line     *)
(* (lines 99-101); a handler that returns None ends handle_line and the    *)
(* loop of main() moves to the next line.                                  *)

\* the value hops stops counting at
MaxHops == 6

\* the parsed line being handled
Cur == Parsed[lines[pos]]

Handling(ph) == phase = ph /\ err = "none" /\ pos <= Len(lines)

\* Replay without the loop of lines 99-101: self.state = next_state and
\* handle_line returns
Replay_Once ==
    /\ pos' = pos + 1
    /\ hops' = 0
    /\ err' = err

\* next_state is a state: line 100, and line 101 calls it on the same line
Replay ==
    /\ pos' = pos
    /\ hops' = IF hops < MaxHops THEN hops + 1 ELSE hops
    /\ err' = err

\* next_state is None: handle_line returns
Return ==
    /\ pos' = pos + 1
    /\ hops' = 0
    /\ err' = err

\* the handler raises: the exception leaves main()
Raise(e) ==
    /\ pos' = pos
    /\ hops' = hops
    /\ err' = e

-----------------------------------------------------------------------------
(* GCodeScanner.                                                           *)

Scanner_Intro ==
    /\ Handling("scan")
    /\ sstate = "Intro"
    /\ IF Cur.comment = TYPE_SKIRT
       THEN sstate' = "SkipSkirt" /\ Replay
       ELSE sstate' = sstate /\ Return
    /\ UNCHANGED << max_x, min_x, max_y, min_y, max_z, seen >>
    /\ UNCHANGED << lines, depress, phase, transVars, tx, ip >>

Scanner_SkipSkirt ==
    /\ Handling("scan")
    /\ sstate = "SkipSkirt"
    /\ IF startswith(Cur.comment, TYPE_)
       THEN sstate' = "RegionScan" /\ Replay
       ELSE sstate' = sstate /\ Return
    /\ UNCHANGED << max_x, min_x, max_y, min_y, max_z, seen >>
    /\ UNCHANGED << lines, depress, phase, transVars, tx, ip >>

\* ScanMotion with g.args.get(axis, 0) for the tests of lines 168, 172, 176:
\* an axis the command does not carry counts as 0
ScanMotion_DefaultZero(g) ==
    LET badX == Has(g.args, "X") /\ ~CanFloat(Get(g.args, "X"))
        badY == ~badX /\ Has(g.args, "Y") /\ ~CanFloat(Get(g.args, "Y"))
        badZ == ~badX /\ ~badY /\ Has(g.args, "Z") /\ ~CanFloat(Get(g.args, "Z"))
        x == IF Has(g.args, "X") THEN float(Get(g.args, "X")) ELSE Num(0)
        y == IF Has(g.args, "Y") THEN float(Get(g.args, "Y")) ELSE Num(0)
        z == IF Has(g.args, "Z") THEN float(Get(g.args, "Z")) ELSE Num(0)
    IN  /\ max_x' = IF ~badX THEN FMax(max_x, x) ELSE max_x
        /\ min_x' = IF ~badX THEN FMin(min_x, x) ELSE min_x
        /\ max_y' = IF ~badX /\ ~badY THEN FMax(max_y, y) ELSE max_y
        /\ min_y' = IF ~badX /\ ~badY THEN FMin(min_y, y) ELSE min_y
        /\ max_z' = IF ~badX /\ ~badY /\ ~badZ THEN FMax(max_z, z) ELSE max_z
        /\ seen' = seen
        /\ IF badX \/ badY \/ badZ THEN Raise("ValueError") ELSE Return

\* lines 168-178: the three axes in order; float() of a value that is no
\* number raises ValueError and leaves the axes before it updated
ScanMotion(g) ==
    LET hasX == Has(g.args, "X")
        hasY == Has(g.args, "Y")
        hasZ == Has(g.args, "Z")
        badX == hasX /\ ~CanFloat(Get(g.args, "X"))
        badY == ~badX /\ hasY /\ ~CanFloat(Get(g.args, "Y"))
        badZ == ~badX /\ ~badY /\ hasZ /\ ~CanFloat(Get(g.args, "Z"))
        doX == hasX /\ ~badX
        doY == hasY /\ ~badX /\ ~badY
        doZ == hasZ /\ ~badX /\ ~badY /\ ~badZ
        x == float(Get(g.args, "X"))
        y == float(Get(g.args, "Y"))
        z == float(Get(g.args, "Z"))
    IN  /\ max_x' = IF doX THEN FMax(max_x, x) ELSE max_x
        /\ min_x' = IF doX THEN FMin(min_x, x) ELSE min_x
        /\ max_y' = IF doY THEN FMax(max_y, y) ELSE max_y
        /\ min_y' = IF doY THEN FMin(min_y, y) ELSE min_y
        /\ max_z' = IF doZ THEN FMax(max_z, z) ELSE max_z
        /\ seen' = [X |-> IF doX THEN seen.X \cup {x} ELSE seen.X,
                    Y |-> IF doY THEN seen.Y \cup {y} ELSE seen.Y,
                    Z |-> IF doZ THEN seen.Z \cup {z} ELSE seen.Z]
        /\ IF badX \/ badY \/ badZ THEN Raise("ValueError") ELSE Return

Scanner_RegionScan ==
    /\ Handling("scan")
    /\ sstate = "RegionScan"
    /\ IF Cur.command = M107
       THEN /\ sstate' = "EndStage" /\ Replay
            /\ UNCHANGED << max_x, min_x, max_y, min_y, max_z, seen >>
       ELSE IF Cur.command = G91
       THEN /\ sstate' = "SkipRelativePosition" /\ Replay
            /\ UNCHANGED << max_x, min_x, max_y, min_y, max_z, seen >>
       ELSE IF Cur.command \notin {G0, G1}
       THEN /\ sstate' = sstate /\ Return
            /\ UNCHANGED << max_x, min_x, max_y, min_y, max_z, seen >>
       ELSE sstate' = sstate /\ ScanMotion(Cur)
    /\ UNCHANGED << lines, depress, phase, transVars, tx, ip >>

\* Scanner_SkipRelativePosition with the M107 test of RegionScan (line 161)
Scanner_SkipRelativePosition_M107 ==
    /\ Handling("scan")
    /\ sstate = "SkipRelativePosition"
    /\ IF Cur.command = M107
       THEN sstate' = "EndStage" /\ Replay
       ELSE IF Cur.command = G90
       THEN sstate' = "RegionScan" /\ Replay
       ELSE sstate' = sstate /\ Return
    /\ UNCHANGED << max_x, min_x, max_y, min_y, max_z, seen >>
    /\ UNCHANGED << lines, depress, phase, transVars, tx, ip >>

\* lines 180-182
Scanner_SkipRelativePosition ==
    /\ Handling("scan")
    /\ sstate = "SkipRelativePosition"
    /\ IF Cur.command = G90
       THEN sstate' = "RegionScan" /\ Replay
       ELSE sstate' = sstate /\ Return
    /\ UNCHANGED << max_x, min_x, max_y, min_y, max_z, seen >>
    /\ UNCHANGED << lines, depress, phase, transVars, tx, ip >>

Scanner_EndStage ==
    /\ Handling("scan")
    /\ sstate = "EndStage"
    /\ Return
    /\ UNCHANGED << scanVars, lines, depress, phase, transVars, tx, ip >>

\* xmid(x); XmidRaises is its ZeroDivisionError
xmidM ==
    LET w == FSub(max_x, min_x)
        h == FDiv(w, Num(2))
    IN  FAdd(min_x, h)
XmidRaises ==
    LET m == xmidM
        den == FSub(max_x, m)
    IN  IsZero(den)
xmid(x) ==
    LET m == xmidM
        num == FSub(x, m)
        den == FSub(max_x, m)
    IN  FDiv(num, den)

ymidM ==
    LET w == FSub(max_y, min_y)
        h == FDiv(w, Num(2))
    IN  FAdd(min_y, h)
YmidRaises ==
    LET m == ymidM
        den == FSub(max_y, m)
    IN  IsZero(den)
ymid(y) ==
    LET m == ymidM
        num == FSub(y, m)
        den == FSub(max_y, m)
    IN  FDiv(num, den)

\* layer_depression(z); it raises ZeroDivisionError when max_z is 0
layer_depression(z) ==
    LET frac == FDiv(z, max_z)
        t == FMul(depress, frac)
    IN  FMul(t, Num(4))

-----------------------------------------------------------------------------
(* GCodeTranslator.                                                        *)

\* the largest r with r * r <= i
ISqrt(i) == CHOOSE r \in 0..i : r * r <= i /\ i < (r + 1) * (r + 1)
IsSquare(i) == ISqrt(i) * ISqrt(i) = i

\* z + sqrt(1 - q) - 1 for rationals z and 0 <= q <= 1: a rational when
\* 1 - q is the square of one, the record of z and q otherwise
Surd(z, q) ==
    LET r == FSub(Num(1), q)
        f == Rat(ISqrt(r.n), ISqrt(r.d))
        zf == FAdd(z, f)
    IN  IF IsSquare(r.n) /\ IsSquare(r.d)
        THEN FSub(zf, Num(1))
        ELSE [k |-> "fin", n |-> z.n, d |-> z.d, qn |-> q.n, qd |-> q.d]

\* line 208: (2*d) - (d**2), the square of s
SSquared(d) ==
    LET twice == FMul(Num(2), d)
        sq == FMul(d, d)
    IN  FSub(twice, sq)
\* line 209: (y*s)**2
YSSquared(y, d) ==
    LET yy == FMul(y, y)
        ss == SSquared(d)
    IN  FMul(yy, ss)

\* the exception target_z(x, y, z) raises with self.first_z = fz, or "none"
target_z_raises(fz, x, y, z) ==
    IF fz = None THEN "TypeError"
    ELSE IF IsZero(max_z) THEN "ZeroDivisionError"
    ELSE IF XmidRaises \/ YmidRaises THEN "ZeroDivisionError"
    ELSE LET zrel == FSub(z, fz)
             d == layer_depression(zrel)
             ss == SSquared(d)
             ym == ymid(y)
             yss == YSSquared(ym, d)
         IN  IF FLt(ss, Num(0)) THEN "ValueError"
             ELSE IF FLt(Num(1), yss) THEN "ValueError"
             ELSE "none"

\* target_z(x, y, z) with self.first_z = fz, when it does not raise
target_z(fz, x, y, z) ==
    LET zrel == FSub(z, fz)
        d == layer_depression(zrel)
        ym == ymid(y)
        yss == YSSquared(ym, d)
    IN  IF ym.k = "nan" THEN NaN ELSE Surd(z, yss)

\* the commands interpolate(4, ...) makes of one move (line 265)
Subdivisions == 4

\* line 268: new_g.args.update(point)
RECURSIVE update(_, _)
update(args, pt) ==
    IF pt = << >> THEN args
    ELSE update(Put(args, pt[1].k, NumVal(pt[1].v)), Tail(pt))

PointAxis(pt, key) == pt[CHOOSE j \in 1..Len(pt) : pt[j].k = key].v

\* the Translator's fields when a handler returns (e = "none") or raises e
Fields(out, fz, lz, lx, ly, le, e) ==
    [out |-> out, fz |-> fz, lz |-> lz, lx |-> lx, ly |-> ly, le |-> le, e |-> e]

\* lines 267-268: the clone of g for one point, with its transformed Z
Clone(g, fz, lz, pt) ==
    [g EXCEPT !.args =
        update(g.args,
               Append(pt, [k |-> "Z",
                           v |-> target_z(fz, PointAxis(pt, "X"), PointAxis(pt, "Y"), lz)]))]

\* line 266: the first point whose target_z raises, Subdivisions + 1 if none
FirstRaise(fz, lz, pts) ==
    IF \A i \in 1..Subdivisions :
          target_z_raises(fz, PointAxis(pts[i], "X"), PointAxis(pts[i], "Y"), lz) = "none"
    THEN Subdivisions + 1
    ELSE CHOOSE i \in 1..Subdivisions :
            \A j \in 1..Subdivisions :
               target_z_raises(fz, PointAxis(pts[j], "X"), PointAxis(pts[j], "Y"), lz)
                   # "none" => i <= j

\* lines 265-274: the clones before point stop are appended; the cursor
\* moves when no point raised
AppendClones(g, fz, lz, target_x, target_y, pts, stop) ==
    IF stop <= Subdivisions
    THEN Fields(output \o [i \in 1..(stop - 1) |-> Clone(g, fz, lz, pts[i])],
                fz, lz, last_x, last_y, last_e,
                target_z_raises(fz, PointAxis(pts[stop], "X"),
                                PointAxis(pts[stop], "Y"), lz))
    ELSE Fields(output \o [i \in 1..Subdivisions |-> Clone(g, fz, lz, pts[i])],
                fz, lz, target_x, target_y,
                IF Has(g.args, "E") THEN PointAxis(pts[Subdivisions], "E") ELSE last_e,
                "none")

\* lines 257-269: target Y differs from last_y
Subdivide(g, fz, lz, target_x, target_y) ==
    IF Has(g.args, "E") /\ ~CanFloat(Get(g.args, "E"))
    THEN Fields(output, fz, lz, last_x, last_y, last_e, "ValueError")
    ELSE \* line 258-263: ir
         LET pts == interpolate(Subdivisions,
                       << [k |-> "X", a |-> last_x, b |-> target_x],
                          [k |-> "Y", a |-> last_y, b |-> target_y] >>
                       \o (IF Has(g.args, "E")
                           THEN << [k |-> "E", a |-> last_e,
                                    b |-> float(Get(g.args, "E"))] >>
                           ELSE << >>))
         IN  AppendClones(g, fz, lz, target_x, target_y, pts, FirstRaise(fz, lz, pts))

\* lines 245-250 (the G0 with Z) and lines 252-255, 271-274 (target Y equals
\* last_y): one command with its Z set; e is what target_z raises
Single(g, isLayer, fz, lz, target_x, target_y, e) ==
    IF e # "none"
    THEN Fields(output, fz, lz, last_x, last_y, last_e, e)
    ELSE Fields(Append(output,
                       [g EXCEPT !.args =
                           Put(g.args, "Z", NumVal(target_z(fz, target_x, target_y, lz)))]),
                fz, lz, target_x, target_y,
                IF ~isLayer /\ Has(g.args, "E") /\ CanFloat(Get(g.args, "E"))
                THEN float(Get(g.args, "E")) ELSE last_e,
                IF ~isLayer /\ Has(g.args, "E") /\ ~CanFloat(Get(g.args, "E"))
                THEN "ValueError" ELSE "none")

\* Emit with line 252 comparing target_x with last_x
Emit_SameX(g, isLayer, fz, lz, target_x, target_y) ==
    IF isLayer \/ target_x = last_x
    THEN Single(g, isLayer, fz, lz, target_x, target_y,
                target_z_raises(fz, target_x, target_y, lz))
    ELSE Subdivide(g, fz, lz, target_x, target_y)

\* lines 245, 252, 257: the three ways to emit the move
Emit(g, isLayer, fz, lz, target_x, target_y) ==
    IF isLayer \/ target_y = last_y
    THEN Single(g, isLayer, fz, lz, target_x, target_y,
                target_z_raises(fz, target_x, target_y, lz))
    ELSE Subdivide(g, fz, lz, target_x, target_y)

\* lines 242-243: target_x and target_y
Targets(g, isLayer, fz, lz) ==
    IF \/ Has(g.args, "X") /\ ~CanFloat(Get(g.args, "X"))
       \/ Has(g.args, "Y") /\ ~CanFloat(Get(g.args, "Y"))
    THEN Fields(output, fz, lz, last_x, last_y, last_e, "ValueError")
    ELSE Emit(g, isLayer, fz, lz,
              IF Has(g.args, "X") THEN float(Get(g.args, "X")) ELSE last_x,
              IF Has(g.args, "Y") THEN float(Get(g.args, "Y")) ELSE last_y)

\* LayerMove without lines 239-240: first_z is never set
LayerMove_NoBaseline(g, isLayer) ==
    IF isLayer /\ ~CanFloat(Get(g.args, "Z"))
    THEN Fields(output, first_z, layer_z, last_x, last_y, last_e, "ValueError")
    ELSE Targets(g, isLayer, first_z,
                 IF isLayer THEN float(Get(g.args, "Z")) ELSE layer_z)

\* LayerMove without the test of line 239: every G0 with Z sets first_z
LayerMove_Rebase(g, isLayer) ==
    IF isLayer /\ ~CanFloat(Get(g.args, "Z"))
    THEN Fields(output, first_z, layer_z, last_x, last_y, last_e, "ValueError")
    ELSE Targets(g, isLayer,
                 IF isLayer THEN float(Get(g.args, "Z")) ELSE first_z,
                 IF isLayer THEN float(Get(g.args, "Z")) ELSE layer_z)

\* lines 236-240: layer_z and first_z from a G0 with Z
LayerMove(g, isLayer) ==
    IF isLayer /\ ~CanFloat(Get(g.args, "Z"))
    THEN Fields(output, first_z, layer_z, last_x, last_y, last_e, "ValueError")
    ELSE Targets(g, isLayer,
                 IF isLayer /\ first_z = None THEN float(Get(g.args, "Z")) ELSE first_z,
                 IF isLayer THEN float(Get(g.args, "Z")) ELSE layer_z)

\* lines 236-274: a G0 or G1 in LayerCode; the fields after the handler has
\* returned or raised
Motion(g) == LayerMove(g, g.command = G0 /\ Has(g.args, "Z"))

\* Translator_Intro that also rewinds the model (self.model.state =
\* self.model.Intro) when the first layer begins
Translator_Intro_Rewind ==
    /\ Handling("translate")
    /\ tstate = "Intro"
    /\ IF startswith(Cur.comment, LAYER_)
       THEN tstate' = "LayerHeader" /\ output' = output /\ sstate' = "Intro" /\ Replay
       ELSE tstate' = tstate /\ output' = Append(output, Cur) /\ sstate' = sstate /\ Return
    /\ UNCHANGED << first_z, layer_z, last_x, last_y, last_e >>
    /\ UNCHANGED << max_x, min_x, max_y, min_y, max_z, seen >>
    /\ UNCHANGED << lines, depress, phase, tx, ip >>

\* lines 213-217
Translator_Intro ==
    /\ Handling("translate")
    /\ tstate = "Intro"
    /\ IF startswith(Cur.comment, LAYER_)
       THEN tstate' = "LayerHeader" /\ output' = output /\ Replay
       ELSE tstate' = tstate /\ output' = Append(output, Cur) /\ Return
    /\ UNCHANGED << first_z, layer_z, last_x, last_y, last_e >>
    /\ UNCHANGED << lines, depress, phase, scanVars, tx, ip >>

\* Translator_LayerHeader with the M107 test of LayerCode (line 229)
Translator_LayerHeader_M107 ==
    /\ Handling("translate")
    /\ tstate = "LayerHeader"
    /\ IF Cur.command = M107
       THEN tstate' = "EndStage" /\ output' = output /\ Replay
       ELSE IF Cur.command = G0 /\ Has(Cur.args, "Z")
       THEN tstate' = "LayerCode" /\ output' = output /\ Replay
       ELSE tstate' = tstate /\ output' = Append(output, Cur) /\ Return
    /\ UNCHANGED << first_z, layer_z, last_x, last_y, last_e >>
    /\ UNCHANGED << lines, depress, phase, scanVars, tx, ip >>

\* lines 219-223
Translator_LayerHeader ==
    /\ Handling("translate")
    /\ tstate = "LayerHeader"
    /\ IF Cur.command = G0 /\ Has(Cur.args, "Z")
       THEN tstate' = "LayerCode" /\ output' = output /\ Replay
       ELSE tstate' = tstate /\ output' = Append(output, Cur) /\ Return
    /\ UNCHANGED << first_z, layer_z, last_x, last_y, last_e >>
    /\ UNCHANGED << lines, depress, phase, scanVars, tx, ip >>

\* Translator_LayerCode without lines 232-234: every command that is not
\* M107 is handled as a motion
Translator_LayerCode_NoFilter ==
    /\ Handling("translate")
    /\ tstate = "LayerCode"
    /\ IF startswith(Cur.comment, LAYER_)
       THEN /\ tstate' = "LayerHeader" /\ output' = output /\ Replay
            /\ UNCHANGED << first_z, layer_z, last_x, last_y, last_e >>
       ELSE IF Cur.command = M107
       THEN /\ tstate' = "EndStage" /\ output' = output /\ Replay
            /\ UNCHANGED << first_z, layer_z, last_x, last_y, last_e >>
       ELSE \E r \in {Motion(Cur)} :
                /\ tstate' = tstate
                /\ output' = r.out
                /\ first_z' = r.fz
                /\ layer_z' = r.lz
                /\ last_x' = r.lx
                /\ last_y' = r.ly
                /\ last_e' = r.le
                /\ IF r.e = "none" THEN Return ELSE Raise(r.e)
    /\ UNCHANGED << lines, depress, phase, scanVars, tx, ip >>

\* lines 225-274
Translator_LayerCode ==
    /\ Handling("translate")
    /\ tstate = "LayerCode"
    /\ IF startswith(Cur.comment, LAYER_)
       THEN /\ tstate' = "LayerHeader" /\ output' = output /\ Replay
            /\ UNCHANGED << first_z, layer_z, last_x, last_y, last_e >>
       ELSE IF Cur.command = M107
       THEN /\ tstate' = "EndStage" /\ output' = output /\ Replay
            /\ UNCHANGED << first_z, layer_z, last_x, last_y, last_e >>
       ELSE IF Cur.command \notin {G0, G1}
       THEN /\ tstate' = tstate /\ output' = Append(output, Cur) /\ Return
            /\ UNCHANGED << first_z, layer_z, last_x, last_y, last_e >>
       ELSE \E r \in {Motion(Cur)} :
                /\ tstate' = tstate
                /\ output' = r.out
                /\ first_z' = r.fz
                /\ layer_z' = r.lz
                /\ last_x' = r.lx
                /\ last_y' = r.ly
                /\ last_e' = r.le
                /\ IF r.e = "none" THEN Return ELSE Raise(r.e)
    /\ UNCHANGED << lines, depress, phase, scanVars, tx, ip >>

\* Translator_EndStage with the body of the Scanner's EndStage (pass)
Translator_EndStage_Pass ==
    /\ Handling("translate")
    /\ tstate = "EndStage"
    /\ output' = output
    /\ Return
    /\ UNCHANGED << tstate, first_z, layer_z, last_x, last_y, last_e >>
    /\ UNCHANGED << lines, depress, phase, scanVars, tx, ip >>

\* lines 276-277
Translator_EndStage ==
    /\ Handling("translate")
    /\ tstate = "EndStage"
    /\ output' = Append(output, Cur)
    /\ Return
    /\ UNCHANGED << tstate, first_z, layer_z, last_x, last_y, last_e >>
    /\ UNCHANGED << lines, depress, phase, scanVars, tx, ip >>

-----------------------------------------------------------------------------
(* main().                                                                 *)

\* lines 294-296: the scan loop is over, the Translator is built
StartTranslator ==
    /\ phase = "scan"
    /\ err = "none"
    /\ pos > Len(lines)
    /\ phase' = "translate"
    /\ pos' = 1
    /\ UNCHANGED << lines, depress, hops, err, scanVars, transVars, tx, ip >>

\* lines 300-301: the translate loop is over, the output is printed
PrintOutput ==
    /\ phase = "translate"
    /\ err = "none"
    /\ pos > Len(lines)
    /\ phase' = "done"
    /\ UNCHANGED << lines, depress, pos, hops, err, scanVars, transVars, tx, ip >>

\* GCodeScanner.__init__ and GCodeTranslator.__init__
InitMachines ==
    /\ pos = 1
    /\ hops = 0
    /\ err = "none"
    /\ sstate = "Intro"
    /\ max_x = Num(0)
    /\ min_x = Inf
    /\ max_y = Num(0)
    /\ min_y = Inf
    /\ max_z = Num(0)
    /\ seen = [X |-> {}, Y |-> {}, Z |-> {}]
    /\ tstate = "Intro"
    /\ output = << >>
    /\ first_z = None
    /\ layer_z = Num(0)
    /\ last_x = Num(0)
    /\ last_y = Num(0)
    /\ last_e = Num(0)

\* main(): one file and one --depress value
Init ==
    /\ lines \in Files
    /\ depress \in Depressions
    /\ phase = "scan"
    /\ InitMachines
    /\ tx = NoText
    /\ ip = NoInterp

Next ==
    \/ Scanner_Intro
    \/ Scanner_SkipSkirt
    \/ Scanner_RegionScan
    \/ Scanner_SkipRelativePosition
    \/ Scanner_EndStage
    \/ StartTranslator
    \/ Translator_Intro
    \/ Translator_LayerHeader
    \/ Translator_LayerCode
    \/ Translator_EndStage
    \/ PrintOutput

Spec == Init /\ [][Next]_vars

\* str(GCode.parse(line)) for every line of Texts
InitText ==
    /\ lines = << >>
    /\ depress = Num(0)
    /\ phase = "off"
    /\ InitMachines
    /\ tx \in [stage : {"line"}, line : Texts,
               g : {GCode(<< >>, << >>, << >>)}, s : {<< >>}]
    /\ ip = NoInterp

NextText == ParseLine \/ StrCommand

SpecText == InitText /\ [][NextText]_vars

\* list(interpolate(n, x=(a, b), y=(c, d))) for every n and every range
InitInterp ==
    /\ lines = << >>
    /\ depress = Num(0)
    /\ phase = "off"
    /\ InitMachines
    /\ tx = NoText
    /\ ip \in {[stage |-> "args", n |-> n, pts |-> << >>,
                p |-> << [k |-> "X", a |-> a, b |-> b], [k |-> "Y", a |-> c, b |-> d] >>] :
               n \in 1..MaxN, a \in Coords, b \in Coords, c \in Coords, d \in Coords}

NextInterp == Interpolate

SpecInterp == InitInterp /\ [][NextInterp]_vars

-----------------------------------------------------------------------------
(* The properties.                                                         *)

ScannerStates == {"Intro", "SkipSkirt", "RegionScan", "SkipRelativePosition", "EndStage"}
TranslatorStates == {"Intro", "LayerHeader", "LayerCode", "EndStage"}

\* the geometry the Scanner accumulates
Box == << min_x, max_x, min_y, max_y, max_z >>
\* the Translator's position fields
Cursor == << last_x, last_y, last_e, layer_z, first_z >>

\* the commands a step has appended to the output
Appended == SubSeq(output', Len(output) + 1, Len(output'))
OutputGrows == Len(output') >= Len(output) /\ SubSeq(output', 1, Len(output)) = output

\* C1: handle_line makes at most as many transitions on one line as the
\* machine handling it has states, so no line is replayed for ever.
C1_ReplayBounded ==
    /\ phase = "scan" => hops <= Cardinality(ScannerStates)
    /\ phase = "translate" => hops <= Cardinality(TranslatorStates)

\* line i comes after a ';TYPE:SKIRT' line, with no comment starting ';TYPE'
\* after that line up to and including line i
InSkirt(i) ==
    \E j \in 1..(i - 1) :
        /\ Parsed[lines[j]].comment = TYPE_SKIRT
        /\ \A k \in (j + 1)..i : ~startswith(Parsed[lines[k]].comment, TYPE_)

\* C2: a G0 or G1 between the ';TYPE:SKIRT' marker and the next comment
\* starting ';TYPE' is handled in SkipSkirt and changes none of min_x,
\* max_x, min_y, max_y, max_z.
C2_SkirtExcluded ==
    [][(Handling("scan") /\ InSkirt(pos) /\ Cur.command \in {G0, G1})
         => (sstate = "SkipSkirt" /\ sstate' = "SkipSkirt" /\ Box' = Box)]_vars

IsMaxOf(m, S) == m \in S /\ \A v \in S : ~FLt(m, v)
IsMinOf(m, S) == m \in S /\ \A v \in S : ~FLt(v, m)

\* C3: after the Scanner pass, for every axis with a value seen in
\* RegionScan the stored maximum is the largest value seen and the stored
\* minimum the smallest.
C3_RunningExtrema ==
    phase \in {"translate", "done"} =>
        /\ seen.X # {} => IsMaxOf(max_x, seen.X) /\ IsMinOf(min_x, seen.X)
        /\ seen.Y # {} => IsMaxOf(max_y, seen.Y) /\ IsMinOf(min_y, seen.Y)
        /\ seen.Z # {} => IsMaxOf(max_z, seen.Z)

\* the Translator is about to handle a G0 or G1 as a motion in LayerCode
MotionInLayer ==
    /\ Handling("translate")
    /\ tstate = "LayerCode"
    /\ ~startswith(Cur.comment, LAYER_)
    /\ Cur.command \in {G0, G1}

\* C4: with --depress 0, every motion handled in LayerCode completes and
\* every command it emits carries Z equal to layer_z.
C4_ZeroDepressionNoOp ==
    [][(depress = Num(0) /\ MotionInLayer)
         => /\ err' = "none"
            /\ OutputGrows
            /\ \A i \in 1..Len(Appended) :
                  /\ Has(Appended[i].args, "Z")
                  /\ float(Get(Appended[i].args, "Z")) = layer_z']_vars

\* an ordinary in-layer move: a motion that is not the G0 carrying Z
OrdinaryMove == MotionInLayer /\ ~(Cur.command = G0 /\ Has(Cur.args, "Z"))
TargetX == IF Has(Cur.args, "X") THEN float(Get(Cur.args, "X")) ELSE last_x
TargetY == IF Has(Cur.args, "Y") THEN float(Get(Cur.args, "Y")) ELSE last_y
\* the interpolation an ordinary move with another Y is cut along
Segment ==
    interpolate(4, << [k |-> "X", a |-> last_x, b |-> TargetX],
                      [k |-> "Y", a |-> last_y, b |-> TargetY] >>
                   \o (IF Has(Cur.args, "E")
                       THEN << [k |-> "E", a |-> last_e, b |-> float(Get(Cur.args, "E"))] >>
                       ELSE << >>))
NotPosition(a) == a.k \notin {"X", "Y", "E", "Z"}
NotZ(a) == a.k # "Z"

\* C5: an ordinary in-layer move that LayerCode completes appends 1 command
\* when its target Y is last_y and 4 when it is not; the 4 carry the X and
\* Y of points 1..4 of the interpolation from (last_x, last_y) to the
\* target, and E interpolated from last_e exactly when the move has an E;
\* every emitted command keeps the mnemonic, the comment and the other
\* arguments.
C5_Subdivision ==
    [][(OrdinaryMove /\ err' = "none")
         => /\ OutputGrows
            /\ \A i \in 1..Len(Appended) :
                  /\ Appended[i].command = Cur.command
                  /\ Appended[i].comment = Cur.comment
                  /\ SelectSeq(Appended[i].args, NotPosition)
                        = SelectSeq(Cur.args, NotPosition)
            /\ IF TargetY = last_y
               THEN /\ Len(Appended) = 1
                    /\ SelectSeq(Appended[1].args, NotZ) = SelectSeq(Cur.args, NotZ)
               ELSE /\ Len(Appended) = 4
                    /\ \A i \in 1..4 :
                          /\ float(Get(Appended[i].args, "X")) = PointAxis(Segment[i], "X")
                          /\ float(Get(Appended[i].args, "Y")) = PointAxis(Segment[i], "Y")
                          /\ Has(Appended[i].args, "E") <=> Has(Cur.args, "E")
                          /\ Has(Cur.args, "E") =>
                                float(Get(Appended[i].args, "E"))
                                    = PointAxis(Segment[i], "E")]_vars

\* C5: a move with E cut into 4 commands, then a move to the same Y emitted
\* as 1
C5_Witness ==
    /\ phase = "translate" /\ tstate = "LayerCode" /\ err = "none" /\ hops = 0
    /\ Len(output) = 8
    /\ \A i \in 4..8 : output[i].command = G1 /\ Has(output[i].args, "E")
    /\ \A i \in 4..7 : ~IsRaw(Get(output[i].args, "X"))
    /\ IsRaw(Get(output[8].args, "X"))
    /\ Has(output[8].args, "Z")

\* C6: EndStage is absorbing.  The Scanner in EndStage keeps its state and
\* its geometry at every step; the Translator in EndStage keeps its state
\* and its position fields, and appends each command it handles once and
\* unmodified.
C6_EndStageAbsorbing ==
    [][/\ sstate = "EndStage" => (sstate' = "EndStage" /\ Box' = Box)
       /\ tstate = "EndStage" => (tstate' = "EndStage" /\ Cursor' = Cursor)
       /\ (tstate = "EndStage" /\ Handling("translate"))
             => (output' = Append(output, Cur) /\ err' = "none")]_vars

\* C6: both machines have handled a G0 with Z after the M107
C6_Witness ==
    /\ phase = "translate" /\ pos = Len(lines) + 1 /\ err = "none"
    /\ sstate = "EndStage" /\ tstate = "EndStage"
    /\ Len(lines) >= 2
    /\ Parsed[lines[Len(lines) - 1]].command = M107
    /\ Parsed[lines[Len(lines)]].command = G0
    /\ output[Len(output)] = Parsed[lines[Len(lines)]]

\* a line of text with no ';' and at most one word
Bare(line) ==
    /\ \A i \in 1..Len(line) : line[i] # ";"
    /\ \A i \in 1..Len(strip(line)) : strip(line)[i] \notin Whitespace

\* C7: for a line without arguments or comment, str(GCode.parse(line)) is
\* the line itself.
C7_RoundTrip ==
    (tx.stage \in {"text", "ValueError"} /\ Bare(tx.line))
        => (tx.stage = "text" /\ tx.s = tx.line)

\* C7, amended: for a line without arguments or comment,
\* str(GCode.parse(line)) is the line without its leading and trailing
\* whitespace.
C7_RoundTripStripped ==
    (tx.stage \in {"text", "ValueError"} /\ Bare(tx.line))
        => (tx.stage = "text" /\ tx.s = strip(tx.line))

\* C7: a line as readlines() gives it, blanks before the word and a newline
\* after it
C7_Witness ==
    /\ tx.stage = "text"
    /\ tx.line = << " ", "G", "1", "\n" >>
    /\ tx.s = << "G", "1" >>

\* start + i * (end - start) / n for the whole numbers the ranges hold
Along(r, n, i) == Rat(r.a.n * n + i * (r.b.n - r.a.n), n)

\* the n points, each the value start + i * (end - start) / n on every axis,
\* the last one the end
PointsExact ==
    /\ Len(ip.pts) = ip.n
    /\ \A i \in 1..ip.n :
          /\ Len(ip.pts[i]) = Len(ip.p)
          /\ \A j \in 1..Len(ip.p) :
                /\ ip.pts[i][j].k = ip.p[j].k
                /\ ip.pts[i][j].v = Along(ip.p[j], ip.n, i)
    /\ \A j \in 1..Len(ip.p) : ip.pts[ip.n][j].v = ip.p[j].b

Plain(g) == g.command \notin {G0, G1, M107} /\ ~startswith(g.comment, LAYER_)

\* C9: in every Translator state a command that is none of G0, G1, M107
\* and whose comment does not start ';LAYER:' raises nothing, is appended
\* once and unchanged, and leaves the state and the position fields alone.
C9_PassThrough ==
    [][(Handling("translate") /\ Plain(Cur))
         => /\ err' = "none"
            /\ output' = Append(output, Cur)
            /\ tstate' = tstate
            /\ Cursor' = Cursor]_vars

\* C9: such a command has passed through LayerCode
C9_Witness ==
    /\ phase = "translate" /\ tstate = "LayerCode" /\ err = "none" /\ hops = 0
    /\ pos > 1 /\ pos <= Len(lines) + 1
    /\ Plain(Parsed[lines[pos - 1]])
    /\ first_z # None
    /\ output # << >>
    /\ output[Len(output)] = Parsed[lines[pos - 1]]

\* the value of axis key in the last motion command of out that carries it,
\* 0 when there is none
Emitted(out, key) ==
    LET at == {i \in 1..Len(out) : out[i].command \in {G0, G1} /\ Has(out[i].args, key)}
    IN  IF at = {} THEN Num(0)
        ELSE float(Get(out[CHOOSE i \in at : \A j \in at : j <= i].args, key))

\* C10: when the Translator is about to subdivide a move, (last_x, last_y)
\* is the position of the motion commands already in the output.
C10_OriginEmitted ==
    (OrdinaryMove /\ TargetY # last_y)
        => (last_x = Emitted(output, "X") /\ last_y = Emitted(output, "Y"))

\* C11: a G0 or G1 that carries Z is the layer-height move: LayerHeader
\* answers it with the transition to LayerCode, and LayerCode, when it
\* completes it, leaves layer_z at the command's Z and appends one command.
C11_ZMoveIsLayerMove ==
    [][(Handling("translate") /\ Cur.command \in {G0, G1} /\ Has(Cur.args, "Z"))
         => /\ tstate = "LayerHeader" => (tstate' = "LayerCode" /\ output' = output)
            /\ (MotionInLayer /\ err' = "none")
                  => /\ layer_z' = float(Get(Cur.args, "Z"))
                     /\ OutputGrows
                     /\ Len(Appended) = 1]_vars

\* the Translator is about to handle a G0 carrying Z in LayerCode
LayerHeightMove == MotionInLayer /\ Cur.command = G0 /\ Has(Cur.args, "Z")

\* C12: first_z is unset until the first G0 carrying Z is handled in
\* LayerCode, that step sets it to the command's Z, which is layer_z then,
\* and no later step changes it.
C12_FirstZPermanent ==
    [][/\ first_z # None => first_z' = first_z
       /\ (first_z = None /\ first_z' # None) => LayerHeightMove
       /\ (first_z = None /\ LayerHeightMove)
             => (first_z' = float(Get(Cur.args, "Z")) /\ layer_z' = first_z')]_vars

\* C12: a second G0 with another Z has been handled
C12_Witness ==
    /\ phase = "translate" /\ tstate = "LayerCode" /\ err = "none" /\ hops = 0
    /\ pos > 1 /\ pos <= Len(lines) + 1
    /\ Parsed[lines[pos - 1]].command = G0
    /\ first_z = Num(1)
    /\ layer_z = Num(2)

\* C13: in SkipRelativePosition no command changes min_x, max_x, min_y,
\* max_y or max_z, G90 takes the Scanner back to RegionScan and every other
\* command, M107 included, leaves it in SkipRelativePosition.
C13_RelativeSkipped ==
    [][(Handling("scan") /\ sstate = "SkipRelativePosition")
         => /\ Box' = Box
            /\ err' = "none"
            /\ IF Cur.command = G90
               THEN sstate' = "RegionScan"
               ELSE sstate' = "SkipRelativePosition"]_vars

\* C13: an M107 has been handled in SkipRelativePosition
C13_Witness ==
    /\ phase = "scan" /\ sstate = "SkipRelativePosition" /\ err = "none" /\ hops = 0
    /\ pos > 2 /\ pos <= Len(lines) + 1
    /\ Parsed[lines[pos - 1]].command = M107
    /\ \E j \in 1..(pos - 2) : Parsed[lines[j]].command = G91

\* C14: in RegionScan a G0 or G1 leaves the extrema of every axis it does
\* not carry unchanged, and a command that is none of G0, G1, M107, G91
\* changes neither the extrema nor the state.
C14_AbsentAxesKept ==
    [][(Handling("scan") /\ sstate = "RegionScan" /\ Cur.command \notin {M107, G91})
         => IF Cur.command \in {G0, G1}
            THEN /\ ~Has(Cur.args, "X") => (min_x' = min_x /\ max_x' = max_x)
                 /\ ~Has(Cur.args, "Y") => (min_y' = min_y /\ max_y' = max_y)
                 /\ ~Has(Cur.args, "Z") => max_z' = max_z
            ELSE Box' = Box /\ sstate' = sstate]_vars

\* C14: RegionScan has handled a G0 with Z only and a G0 with Y only, and
\* no command with X
C14_Witness ==
    /\ sstate = "RegionScan" /\ err = "none"
    /\ seen.X = {} /\ seen.Y = {Num(-1)} /\ seen.Z = {Num(1)}
    /\ min_x = Inf /\ max_x = Num(0)
    /\ min_y = Num(-1)
    /\ max_z = Num(1)

\* C15: no step of the Translator pass changes min_x, max_x, min_y, max_y,
\* max_z, the depression amount or the Scanner's state.
C15_ModelImmutable ==
    [][phase = "translate"
         => (Box' = Box /\ depress' = depress /\ sstate' = sstate)]_vars

\* C15: the Translator has subdivided a move with the model the Scanner
\* left
C15_Witness ==
    /\ phase = "done" /\ err = "none"
    /\ sstate = "RegionScan" /\ tstate = "LayerCode"
    /\ min_x = Num(-4) /\ max_z = Num(1)
    /\ Len(output) >= 7

ScannerEdges ==
    { << "Intro", "SkipSkirt" >>, << "SkipSkirt", "RegionScan" >>,
      << "RegionScan", "SkipRelativePosition" >>,
      << "SkipRelativePosition", "RegionScan" >>, << "RegionScan", "EndStage" >> }
TranslatorEdges ==
    { << "Intro", "LayerHeader" >>, << "LayerHeader", "LayerCode" >>,
      << "LayerCode", "LayerHeader" >>, << "LayerCode", "EndStage" >> }

\* C16: the Scanner's state changes only along Intro -> SkipSkirt ->
\* RegionScan <-> SkipRelativePosition and RegionScan -> EndStage, the
\* Translator's only along Intro -> LayerHeader <-> LayerCode and
\* LayerCode -> EndStage; an M107 the Translator handles in Intro or
\* LayerHeader is appended and leaves the state where it is.
C16_DocumentedEdges ==
    [][/\ sstate' # sstate => << sstate, sstate' >> \in ScannerEdges
       /\ tstate' # tstate => << tstate, tstate' >> \in TranslatorEdges
       /\ (Handling("translate") /\ tstate \in {"Intro", "LayerHeader"}
             /\ Cur.command = M107 /\ ~startswith(Cur.comment, LAYER_))
             => (tstate' = tstate /\ output' = Append(output, Cur))]_vars

\* C16: an M107 has passed through LayerHeader
C16_Witness ==
    /\ phase = "translate" /\ tstate = "LayerHeader" /\ err = "none" /\ hops = 0
    /\ pos > 1 /\ pos <= Len(lines) + 1
    /\ Parsed[lines[pos - 1]].command = M107
    /\ output # << >>
    /\ output[Len(output)].command = M107

\* C17: target_z is never evaluated with first_z unset: no run raises
\* TypeError, and a motion LayerCode is about to handle while first_z is
\* unset is a G0 carrying Z, which sets first_z before it calls target_z.
C17_BaselineSet ==
    /\ err # "TypeError"
    /\ (MotionInLayer /\ first_z = None) => LayerHeightMove

\* C17: the first G0 with Z has been handled and its Z computed
C17_Witness ==
    /\ phase = "translate" /\ tstate = "LayerCode" /\ err = "none" /\ hops = 0
    /\ first_z = Num(1) /\ layer_z = Num(1)
    /\ output # << >>
    /\ output[Len(output)].command = G0
    /\ ~IsRaw(Get(output[Len(output)].args, "Z"))

\* the output from command j on is, line by line from line i on, one
\* command with the line's mnemonic and comment (the parsed line itself when
\* it is no motion), or four of them for a motion
RECURSIVE Blocks(_, _)
Blocks(i, j) ==
    IF i > Len(lines) THEN j = Len(output) + 1
    ELSE LET g == Parsed[lines[i]]
             Same(n) ==
                 /\ j + n - 1 <= Len(output)
                 /\ \A k \in j..(j + n - 1) :
                       output[k].command = g.command /\ output[k].comment = g.comment
         IN  \/ /\ Same(1)
                /\ g.command \notin {G0, G1} => output[j] = g
                /\ Blocks(i + 1, j + 1)
             \/ /\ g.command \in {G0, G1}
                /\ Same(4)
                /\ Blocks(i + 1, j + 4)

\* C18: when the run completes, the output is the input lines in order,
\* each as a block of exactly 1 command or, for a motion, exactly 4, so its
\* length is the number of lines plus 3 for every block of 4.
C18_NoDropNoDuplicate ==
    phase = "done" =>
        /\ Blocks(1, 1)
        /\ Len(output) >= Len(lines)
        /\ (Len(output) - Len(lines)) % 3 = 0

\* C18: a completed run of five lines with a layer marker, a G0 with Z and
\* one subdivided move
C18_Witness ==
    /\ phase = "done" /\ err = "none"
    /\ Len(lines) = 5
    /\ Len(output) = 8
    /\ tstate = "LayerCode"

\* C19: whenever the Translator is about to evaluate target_z, the model the
\* Scanner left has max_z # 0, max_x different from the X centre and max_y
\* different from the Y centre, so no division by zero is raised.
C19_UsableBounds ==
    /\ err # "ZeroDivisionError"
    /\ MotionInLayer => (~IsZero(max_z) /\ ~XmidRaises /\ ~YmidRaises)

====
